-------------------------- MODULE DrainClusterProof --------------------------
(* Proofs about DrainPredicates and of the safety properties of DrainCluster. *)
EXTENDS DrainCluster, FiniteSetTheorems, SequenceTheorems, TLAPS

(* The names of tasks and of services. *)

(* The pieces of a task's name. *)
LEMMA TaskNamePieces ==
    ASSUME NEW Pieces, {".", "1", "id"} \subseteq Pieces, NEW t \in Seq(Pieces)
    PROVE  /\ Len(t) \in Nat /\ TaskName(t) \in Seq(Pieces) /\ Len(TaskName(t)) = Len(t) + 4
           /\ \A i \in 1 .. Len(t) : TaskName(t)[i] = t[i]
           /\ TaskName(t)[Len(t) + 1] = "." /\ TaskName(t)[Len(t) + 2] = "1"
           /\ TaskName(t)[Len(t) + 3] = "." /\ TaskName(t)[Len(t) + 4] = "id"
<1> DEFINE suffix == <<".", "1", ".", "id">>
<1>1. /\ suffix \in Seq(Pieces) /\ Len(suffix) = 4
      /\ suffix[1] = "." /\ suffix[2] = "1" /\ suffix[3] = "." /\ suffix[4] = "id"
  OBVIOUS
<1> HIDE DEF suffix
<1>2. /\ t \o suffix \in Seq(Pieces) /\ Len(t \o suffix) = Len(t) + 4
      /\ \A i \in 1 .. Len(t) + 4 : (t \o suffix)[i] = IF i <= Len(t) THEN t[i] ELSE suffix[i - Len(t)]
  <2>1. t \o suffix \in Seq(Pieces) /\ Len(t \o suffix) = Len(t) + Len(suffix)
    BY <1>1, ConcatProperties, Zenon
  <2>2. \A i \in 1 .. Len(t) + Len(suffix) :
          (t \o suffix)[i] = IF i <= Len(t) THEN t[i] ELSE suffix[i - Len(t)]
    BY <1>1, ConcatProperties, Zenon
  <2> QED BY <1>1, <2>1, <2>2
<1>3. TaskName(t) = t \o suffix BY DEF TaskName, suffix
<1>4. Len(t) \in Nat OBVIOUS
<1>5. \A i \in 1 .. Len(t) : TaskName(t)[i] = t[i] BY <1>2, <1>3, <1>4
<1>6. \A j \in 1 .. 4 : TaskName(t)[Len(t) + j] = suffix[j]
  <2> TAKE j \in 1 .. 4
  <2>1. Len(t) + j \in 1 .. Len(t) + 4 /\ ~(Len(t) + j <= Len(t)) /\ Len(t) + j - Len(t) = j
    BY <1>4
  <2> QED BY <1>2, <1>3, <2>1
<1>7. {1, 2, 3, 4} \subseteq 1 .. 4 OBVIOUS
<1> QED BY <1>1, <1>2, <1>3, <1>4, <1>5, <1>6, <1>7

(* What it is to begin a name, piece by piece. *)
LEMMA OwnsPieces ==
    ASSUME NEW Pieces, "." \in Pieces, NEW s \in Seq(Pieces), NEW name \in Seq(Pieces)
    PROVE  Owns(s, name) <=> /\ Len(s) < Len(name) /\ name[Len(s) + 1] = "."
                             /\ \A i \in 1 .. Len(s) : name[i] = s[i]
<1> DEFINE dotted == s \o <<".">>
           head == SubSeq(name, 1, Len(s) + 1)
<1>1. /\ dotted \in Seq(Pieces) /\ Len(dotted) = Len(s) + 1
      /\ \A i \in 1 .. Len(s) : dotted[i] = s[i]
      /\ dotted[Len(s) + 1] = "."
  OBVIOUS
<1>2. SubSeq(dotted, 1, Len(dotted)) = dotted BY <1>1
<1>3. Owns(s, name) <=> Len(s) + 1 <= Len(name) /\ dotted = head
  BY <1>1, <1>2 DEF Owns, IsPrefix
<1>4. ASSUME Len(s) < Len(name)
      PROVE  /\ head \in Seq(Pieces) /\ Len(head) = Len(s) + 1
             /\ \A i \in 1 .. Len(s) + 1 : head[i] = name[i]
  BY <1>4
<1> HIDE DEF dotted, head
<1>5. ASSUME Len(s) < Len(name)
      PROVE  dotted = head <=> \A i \in 1 .. Len(s) + 1 : dotted[i] = head[i]
  BY <1>1, <1>4, <1>5, SeqEqual
<1>6. Len(s) \in Nat /\ Len(name) \in Nat OBVIOUS
<1>7. ASSUME Len(s) < Len(name)
      PROVE  (\A i \in 1 .. Len(s) + 1 : dotted[i] = head[i])
                <=> name[Len(s) + 1] = "." /\ \A i \in 1 .. Len(s) : name[i] = s[i]
  <2>1. \A i \in 1 .. Len(s) + 1 : i \in 1 .. Len(s) \/ i = Len(s) + 1 BY <1>6
  <2>2. (1 .. Len(s)) \cup {Len(s) + 1} \subseteq 1 .. Len(s) + 1 BY <1>6
  <2> QED BY <1>1, <1>4, <1>7, <2>1, <2>2
<1>8. Len(s) + 1 <= Len(name) <=> Len(s) < Len(name) BY <1>6
<1> QED BY <1>3, <1>5, <1>7, <1>8

(* The owners of a task: its service, <service>.1, or a dotted beginning. *)
LEMMA OwnerOf ==
    ASSUME NEW Pieces, {".", "1", "id"} \subseteq Pieces,
           NEW s \in Seq(Pieces), NEW t \in Seq(Pieces), Owns(s, TaskName(t))
    PROVE  \/ s = t
           \/ s = t \o <<".", "1">>
           \/ Len(s) < Len(t) /\ t[Len(s) + 1] = "."
<1> DEFINE name == TaskName(t)
<1>0. /\ name \in Seq(Pieces) /\ Len(name) = Len(t) + 4 /\ Len(t) \in Nat /\ Len(s) \in Nat
      /\ \A i \in 1 .. Len(t) : name[i] = t[i]
      /\ name[Len(t) + 1] = "." /\ name[Len(t) + 2] = "1"
      /\ name[Len(t) + 3] = "." /\ name[Len(t) + 4] = "id"
  BY TaskNamePieces
<1>1. /\ Len(s) < Len(name) /\ name[Len(s) + 1] = "."
      /\ \A i \in 1 .. Len(s) : name[i] = s[i]
  BY <1>0, OwnsPieces
<1> HIDE DEF name
<1>2. CASE Len(s) < Len(t)
  <2>1. Len(s) + 1 \in 1 .. Len(t) BY <1>0, <1>2
  <2> QED BY <1>0, <1>1, <1>2, <2>1
<1>3. CASE Len(s) = Len(t)
  <2>1. \A i \in 1 .. Len(s) : s[i] = t[i] BY <1>0, <1>1, <1>3
  <2> QED BY <1>3, <2>1, SeqEqual
<1>4. CASE Len(s) = Len(t) + 1 \/ Len(s) = Len(t) + 3
  <2>1. Len(s) + 1 = Len(t) + 2 \/ Len(s) + 1 = Len(t) + 4 BY <1>0, <1>4
  <2> QED BY <1>0, <1>1, <2>1
<1>5. CASE Len(s) = Len(t) + 2
  <2> DEFINE first == t \o <<".", "1">>
  <2>1. /\ first \in Seq(Pieces) /\ Len(first) = Len(t) + 2
        /\ \A i \in 1 .. Len(t) : first[i] = t[i]
        /\ first[Len(t) + 1] = "." /\ first[Len(t) + 2] = "1"
    OBVIOUS
  <2> HIDE DEF first
  <2>2. \A i \in 1 .. Len(s) : i \in 1 .. Len(t) \/ i = Len(t) + 1 \/ i = Len(t) + 2
    BY <1>0, <1>5
  <2>3. \A i \in 1 .. Len(s) : s[i] = first[i]
    BY <1>0, <1>1, <2>1, <2>2
  <2>4. s = first BY <1>5, <2>1, <2>3, SeqEqual
  <2> QED BY <2>4 DEF first
<1> QED BY <1>0, <1>1, <1>2, <1>3, <1>4, <1>5

LEMMA OwnTask ==
    ASSUME NEW Pieces, {".", "1", "id"} \subseteq Pieces, NEW t \in Seq(Pieces)
    PROVE Owns(t, TaskName(t))
<1>1. /\ TaskName(t) \in Seq(Pieces) /\ Len(t) < Len(TaskName(t)) /\ TaskName(t)[Len(t) + 1] = "."
      /\ \A i \in 1 .. Len(t) : TaskName(t)[i] = t[i]
  BY TaskNamePieces
<1> QED BY <1>1, OwnsPieces

(***************************************************************************)
(* longestServicePrefix credits a task to its own service, whatever other  *)
(* services are in the list, unless one of them is named <service>.1: so a *)
(* snapshot of names of which one begins the other is read right           *)
(* (drain.go:37 to 40).                                                    *)
(***************************************************************************)
THEOREM LongestIsOwner ==
    ASSUME NEW Pieces, {".", "1", "id"} \subseteq Pieces,
           NEW want \in SUBSET Seq(Pieces), NEW service \in want,
           service \o <<".", "1">> \notin want
    PROVE  LongestServicePrefix(TaskName(service), want) = {service}
<1> DEFINE owners == {s \in want : Owns(s, TaskName(service))}
<1>1. service \in owners BY OwnTask
<1>2. \A s \in owners : s = service \/ Len(s) < Len(service) BY OwnerOf
<1>3. \A s \in owners : Len(s) \in Nat BY DEF owners
<1> QED BY <1>1, <1>2, <1>3 DEF LongestServicePrefix

(***************************************************************************)
(* Services whose names have no dot, as all stacks of the repository, meet *)
(* NamesAssumption: survivorMissing never takes a task of one for another's.*)
(***************************************************************************)
THEOREM UndottedNames ==
    ASSUME NEW Pieces, {".", "1", "id"} \subseteq Pieces, NEW names \in SUBSET Seq(Pieces),
           \A t \in names : \A i \in 1 .. Len(t) : t[i] # "."
    PROVE  \A s, t \in names : Owns(s, TaskName(t)) <=> s = t
<1> SUFFICES ASSUME NEW s \in names, NEW t \in names, Owns(s, TaskName(t)) PROVE s = t
  BY OwnTask
<1>1. s # t \o <<".", "1">>
  <2>1. (t \o <<".", "1">>)[Len(t) + 1] = "." /\ Len(t) + 1 \in 1 .. Len(t \o <<".", "1">>)
    OBVIOUS
  <2> QED BY <2>1
<1>2. ~(Len(s) < Len(t) /\ t[Len(s) + 1] = ".") OBVIOUS
<1> QED BY <1>1, <1>2, OwnerOf

-----------------------------------------------------------------------------
(* Types. *)

LEMMA NewRunType == NewRun \in Run
BY DEF NewRun, Run

LEMMA InitType == Init => TypeOK
<1> SUFFICES ASSUME Init PROVE TypeOK
  OBVIOUS
<1>1. run \in [Peers -> Run] BY NewRunType DEF Init
<1>2. pc \in [Nodes -> Labels] BY DEF Init, Labels
<1> QED BY <1>1, <1>2 DEF Init, TypeOK, Nodes

LEMMA GotoType ==
    ASSUME TypeOK, NEW n \in Nodes, NEW l \in Labels, Goto(n, l)
    PROVE  pc' \in [Nodes -> Labels]
BY DEF TypeOK, Goto

LEMMA LeaveType ==
    ASSUME TypeOK, NEW p \in Peers, NEW l \in Labels, Leave(p, l)
    PROVE  pc' \in [Nodes -> Labels] /\ run' \in [Peers -> Run]
BY NewRunType DEF TypeOK, Leave, Goto, Nodes

LEMMA NotReadyType ==
    ASSUME TypeOK, NEW p \in Peers, NotReady(p)
    PROVE  /\ pc' \in [Nodes -> Labels]
           /\ run' \in [Peers -> Run]
           /\ disturbed' \in BOOLEAN
<1>1. CASE Leave(p, "poweroff") /\ disturbed' = TRUE
  <2>1. "poweroff" \in Labels BY DEF Labels
  <2> QED BY <1>1, <2>1, LeaveType
<1>2. CASE Goto(p, IF run[p].drained THEN "poll" ELSE "attempt") /\ UNCHANGED <<run, disturbed>>
  <2>1. (IF run[p].drained THEN "poll" ELSE "attempt") \in Labels BY DEF Labels, InRun
  <2>2. pc' \in [Nodes -> Labels] BY <1>2, <2>1, GotoType DEF Nodes
  <2> QED BY <1>2, <2>2 DEF TypeOK
<1> QED BY <1>1, <1>2 DEF NotReady

LEMMA UpdateType ==
    ASSUME TypeOK, NEW p \in Peers, NEW target \in {"active", "drain"},
           MayUpdate(p, target)
    PROVE  avail' \in [Peers -> {"active", "drain"}]
BY DEF TypeOK, MayUpdate, Update

LEMMA DaemonType ==
    ASSUME TypeOK, NEW p \in Peers, Daemon(p) PROVE TypeOK'
<1> USE DEF Nodes
<1>0. {"attempt", "drain", "poll", "missing", "loop", "urgent", "release", "poweroff"} \subseteq Labels
  BY DEF Labels, InRun
<1>1. CASE Confirm(p) BY <1>0, <1>1, LeaveType DEF Confirm, TypeOK
<1>2. CASE Stop(p)
  <2>1. avail' \in [Peers -> {"active", "drain"}] BY <1>2, UpdateType DEF Stop, TypeOK
  <2>2. pc' \in [Nodes -> Labels] /\ run' \in [Peers -> Run]
    BY <1>0, <1>2, LeaveType DEF Stop
  <2> QED BY <1>2, <2>1, <2>2 DEF Stop, TypeOK
<1>3. CASE Snapshot(p)
  <2>1. run[p] \in Run /\ Local(p) \subseteq Services BY DEF TypeOK, Local
  <2>2. SnapshotOf(p) \in Run BY <2>1 DEF SnapshotOf, Run
  <2>3. pc' \in [Nodes -> Labels] BY <1>0, <1>3, GotoType DEF Snapshot
  <2> QED BY <1>3, <2>2, <2>3 DEF Snapshot, Marked, TypeOK
<1>4. CASE Drain(p)
  <2>1. avail' \in [Peers -> {"active", "drain"}]
    BY <1>4, UpdateType DEF Drain, MayUpdate
  <2>2. pc' \in [Nodes -> Labels] BY <1>0, <1>4, GotoType DEF Drain
  <2>3. [run[p] EXCEPT !.drained = TRUE] \in Run BY DEF TypeOK, Run
  <2>4. run' \in [Peers -> Run] BY <1>4, <2>3 DEF Drain, TypeOK
  <2> QED BY <1>4, <2>1, <2>2, <2>4 DEF Drain, TypeOK
<1>5. CASE Count(p)
  <2>1. CASE NotReady(p) BY <1>5, <2>1, NotReadyType DEF Count, TypeOK
  <2>2. CASE ~NotReady(p)
    <3>1. pc' \in [Nodes -> Labels] BY <1>0, <1>5, <2>2, GotoType DEF Count
    <3> QED BY <1>5, <2>2, <3>1 DEF Count, TypeOK
  <2> QED BY <2>1, <2>2
<1>6. CASE Missing(p)
  <2>1. CASE NotReady(p) BY <1>6, <2>1, NotReadyType DEF Missing, TypeOK
  <2>2. CASE ~NotReady(p)
    <3>1. pc' \in [Nodes -> Labels] /\ run' \in [Peers -> Run]
      BY <1>0, <1>6, <2>2, LeaveType DEF Missing
    <3> QED BY <1>6, <2>2, <3>1 DEF Missing, TypeOK
  <2> QED BY <2>1, <2>2
<1>7. CASE UrgentDrain(p)
  <2>1. avail' \in [Peers -> {"active", "drain"}] BY <1>7, UpdateType DEF UrgentDrain
  <2>2. pc' \in [Nodes -> Labels] BY <1>0, <1>7, GotoType DEF UrgentDrain
  <2> QED BY <1>7, <2>1, <2>2 DEF UrgentDrain, TypeOK
<1>8. CASE Release(p)
  <2>1. pc' \in [Nodes -> Labels] BY <1>0, <1>8, GotoType DEF Release
  <2> QED BY <1>8, <2>1 DEF Release, TypeOK
<1> QED BY <1>1, <1>2, <1>3, <1>4, <1>5, <1>6, <1>7, <1>8 DEF Daemon

LEMMA StepType == TypeOK /\ [Next]_vars => TypeOK'
<1> SUFFICES ASSUME TypeOK, [Next]_vars PROVE TypeOK'
  OBVIOUS
<1> USE DEF TypeOK, Nodes
<1>1. ASSUME NEW p \in Peers, Daemon(p) PROVE TypeOK' BY <1>1, DaemonType
<1>2. ASSUME NEW p \in Peers, Recover(p) PROVE TypeOK'
  BY <1>2 DEF Recover, Goto, Update, MayUpdate, Labels
<1>3. ASSUME NEW p \in Peers, Crash(p) PROVE TypeOK'
  BY <1>3 DEF Crash, Leave, Goto, MayUpdate, Update, NewRun, Run, Labels, InRun
<1>4. ASSUME NEW n \in Nodes, Urgent(n) PROVE TypeOK'
  BY <1>4 DEF Urgent, Goto, Marked, Labels
<1>5. ASSUME NEW n \in Nodes, PowerDown(n) PROVE TypeOK'
  BY <1>5 DEF PowerDown, Goto, Labels
<1>6. ASSUME NEW n \in Nodes, PowerUp(n) PROVE TypeOK'
  BY <1>6 DEF PowerUp, Goto, Labels
<1>7. ASSUME NEW p \in Peers, NEW s \in Services, Teardown(p, s) PROVE TypeOK'
  BY <1>7 DEF Teardown
<1>8. ASSUME NEW s \in Services, Start(s) PROVE TypeOK'
  BY <1>8 DEF Start, Open
<1>9. CASE UpsChanges BY <1>9 DEF UpsChanges
<1>10. CASE Settle BY <1>10 DEF Settle
<1>11. CASE UNCHANGED vars BY <1>11 DEF vars
<1> QED BY <1>1, <1>2, <1>3, <1>4, <1>5, <1>6, <1>7, <1>8, <1>9, <1>10, <1>11 DEF Next

(***************************************************************************)
(* Every variable of the swarm keeps its type.                             *)
(***************************************************************************)
THEOREM TypeCorrect == Spec => []TypeOK
<1>1. Init => TypeOK BY InitType
<1>2. TypeOK /\ [Next]_vars => TypeOK' BY StepType
<1> QED BY <1>1, <1>2, PTL DEF Spec

-----------------------------------------------------------------------------
(***************************************************************************)
(* The inductive invariant.  What holds in any outage: a drained peer has  *)
(* its flag, one that is about to remove it is active, a node that is not  *)
(* down is up, a run's locals are empty outside of it and its list is      *)
(* empty before the snapshot.                                              *)
(***************************************************************************)
Marks ==
    \A p \in Peers :
      /\ avail[p] = "drain" \/ pc[p] \in {"drain", "urgent"} => p \in flag
      /\ pc[p] = "release" => avail[p] = "active"

Ups == \A n \in Nodes : n \in up <=> pc[n] # "down"

Runs ==
    \A p \in Peers :
      /\ pc[p] \notin InRun => run[p] = NewRun
      /\ ~run[p].snapshotted => run[p].services = {}

(***************************************************************************)
(* What holds while nothing has disturbed the outage: a peer in its loop   *)
(* is not marked, one that may be drained has its snapshot, one that is    *)
(* about to be off is drained and empty; and the survivor stays.           *)
(***************************************************************************)
PlainPeer(p) ==
    /\ pc[p] \notin {"urgent", "release"}
    /\ pc[p] = "loop" => p \notin flag
    /\ pc[p] \in InRun /\ p \in flag => run[p].snapshotted
    /\ run[p].drained => avail[p] = "drain"
    /\ pc[p] = "missing" => run[p].drained /\ Local(p) = {}
    /\ pc[p] \in {"poweroff", "down"} => avail[p] = "drain" /\ Local(p) = {}

Held == \A s \in Services : place[s] = Survivor \/ \E p \in Peers : Waits(p, s)

Plain ==
    /\ pc[Survivor] = "loop"
    /\ \A p \in Peers : PlainPeer(p)
    /\ Held

Basics == TypeOK /\ Marks /\ Ups /\ Runs

IInv == Basics /\ (~disturbed => Plain)

LEMMA InitInv == Init => IInv
<1> SUFFICES ASSUME Init PROVE IInv
  OBVIOUS
<1>1. TypeOK BY InitType
<1>2. \A p \in Peers : pc[p] = "loop" /\ run[p] = NewRun /\ avail[p] = "active"
  BY DEF Init, Nodes
<1>3. Marks /\ Ups /\ Runs BY <1>2 DEF Init, Marks, Ups, Runs, NewRun, Nodes
<1>4. pc[Survivor] = "loop" BY DEF Init, Nodes
<1>5. \A p \in Peers : PlainPeer(p) BY <1>2 DEF Init, PlainPeer, NewRun, InRun
<1>6. Held
  <2> SUFFICES ASSUME NEW s \in Services, place[s] # Survivor
               PROVE  \E p \in Peers : Waits(p, s)
    BY DEF Held
  <2>1. place[s] \in Peers /\ place[s] \in up BY DEF Init, Nodes
  <2> QED BY <1>2, <2>1 DEF Waits, NewRun
<1> QED BY <1>1, <1>3, <1>4, <1>5, <1>6 DEF IInv, Basics, Plain

-----------------------------------------------------------------------------
(* The general part. *)

LEMMA StepBasics ==
    ASSUME Basics, [Next]_vars PROVE Basics'
<1>0. TypeOK' BY StepType DEF Basics
<1> USE DEF Basics, TypeOK, Nodes
<1>1. ASSUME NEW p \in Peers, Daemon(p) PROVE Marks' /\ Ups' /\ Runs'
  <2>1. CASE Confirm(p)
    BY <2>1 DEF Confirm, Leave, Goto, NewRun, InRun, Marks, Ups, Runs
  <2>2. CASE Stop(p)
    <3>1. pc'[p] \in {"loop", "poweroff"} /\ pc'[p] \notin InRun /\ pc[p] # "down"
      BY <2>2 DEF Stop, Leave, Goto, InRun
    <3>2. Marks' BY <2>2, <3>1 DEF Stop, Leave, Goto, MayUpdate, Update, Marks
    <3>3. Ups' BY <2>2, <3>1 DEF Stop, Leave, Goto, Ups
    <3>4. Runs' BY <2>2, <3>1 DEF Stop, Leave, Goto, NewRun, Runs
    <3> QED BY <3>2, <3>3, <3>4
  <2>3. CASE Snapshot(p)
    <3>1. Marks' BY <2>3 DEF Snapshot, Goto, Marked, Marks
    <3>2. Ups' BY <2>3 DEF Snapshot, Goto, Ups
    <3>3. pc'[p] \in InRun /\ \A q \in Peers \ {p} : pc'[q] = pc[q]
      BY <2>3 DEF Snapshot, Goto, InRun
    <3>4. run' = run \/ run' = [run EXCEPT ![p] = SnapshotOf(p)]
      BY <2>3 DEF Snapshot
    <3>5. SnapshotOf(p).snapshotted BY DEF SnapshotOf, Run
    <3>6. /\ run'[p].snapshotted \/ run'[p] = run[p]
          /\ \A q \in Peers \ {p} : run'[q] = run[q]
      BY <3>4, <3>5
    <3>7. Runs' BY <3>3, <3>6 DEF Runs
    <3> QED BY <3>1, <3>2, <3>7
  <2>4. CASE Drain(p)
    <3>1. Marks' /\ Ups' BY <2>4 DEF Drain, Goto, Update, MayUpdate, Marks, Ups
    <3>2. run'[p].snapshotted = run[p].snapshotted /\ run'[p].services = run[p].services
      BY <2>4 DEF Drain, Run
    <3>3. Runs' BY <2>4, <3>2 DEF Drain, Goto, Runs, InRun
    <3> QED BY <3>1, <3>3
  <2>5. CASE Count(p) \/ Missing(p)
    <3>1. UNCHANGED <<up, flag, avail>> BY <2>5 DEF Count, Missing
    <3>2. CASE Leave(p, "poweroff")
      <4>1. pc'[p] = "poweroff" BY <3>2 DEF Leave, Goto
      <4>2. pc[p] # "down" BY <2>5 DEF Count, Missing
      <4> QED BY <3>1, <3>2, <4>1, <4>2 DEF Leave, Goto, NewRun, InRun, Marks, Ups, Runs
    <3>3. CASE run' = run /\ \E l \in {"poll", "attempt", "missing"} : Goto(p, l)
      <4>1. pc[p] # "down" /\ pc[p] \in InRun BY <2>5 DEF Count, Missing, InRun
      <4> QED BY <3>1, <3>3, <4>1 DEF Goto, InRun, Marks, Ups, Runs
    <3> QED BY <2>5, <3>2, <3>3 DEF Count, Missing, NotReady
  <2>6. CASE UrgentDrain(p)
    BY <2>6 DEF UrgentDrain, Goto, MayUpdate, Update, InRun, Marks, Ups, Runs
  <2>7. CASE Release(p)
    BY <2>7 DEF Release, Goto, InRun, Marks, Ups, Runs
  <2> QED BY <1>1, <2>1, <2>2, <2>3, <2>4, <2>5, <2>6, <2>7 DEF Daemon
<1>2. ASSUME NEW p \in Peers, Recover(p) PROVE Marks' /\ Ups' /\ Runs'
  BY <1>2 DEF Recover, Goto, Update, MayUpdate, InRun, Marks, Ups, Runs
<1>3. ASSUME NEW p \in Peers, Crash(p) PROVE Marks' /\ Ups' /\ Runs'
  BY <1>3 DEF Crash, Leave, Goto, MayUpdate, Update, NewRun, InRun, Marks, Ups, Runs
<1>4. ASSUME NEW n \in Nodes, Urgent(n) PROVE Marks' /\ Ups' /\ Runs'
  BY <1>4 DEF Urgent, Goto, Marked, InRun, Marks, Ups, Runs
<1>5. ASSUME NEW n \in Nodes, PowerDown(n) PROVE Marks' /\ Ups' /\ Runs'
  BY <1>5 DEF PowerDown, Goto, InRun, Marks, Ups, Runs
<1>6. ASSUME NEW n \in Nodes, PowerUp(n) PROVE Marks' /\ Ups' /\ Runs'
  BY <1>6 DEF PowerUp, Goto, InRun, Marks, Ups, Runs
<1>7. ASSUME NEW p \in Peers, NEW s \in Services, Teardown(p, s) PROVE Marks' /\ Ups' /\ Runs'
  BY <1>7 DEF Teardown, Marks, Ups, Runs
<1>8. ASSUME NEW s \in Services, Start(s) PROVE Marks' /\ Ups' /\ Runs'
  BY <1>8 DEF Start, Marks, Ups, Runs
<1>9. CASE UpsChanges BY <1>9 DEF UpsChanges, Marks, Ups, Runs
<1>10. CASE Settle BY <1>10 DEF Settle, Marks, Ups, Runs
<1>11. CASE UNCHANGED vars BY <1>11 DEF vars, Marks, Ups, Runs
<1> QED BY <1>0, <1>1, <1>2, <1>3, <1>4, <1>5, <1>6, <1>7, <1>8, <1>9, <1>10, <1>11 DEF Next

-----------------------------------------------------------------------------
(* The plain part. *)

(* survivorMissing finds nothing missing only if the survivor runs it all. *)
LEMMA ConvergedHolds ==
    ASSUME TypeOK, NEW p \in Peers, Converged(p), NEW s \in run[p].services
    PROVE  place[s] = Survivor
<1>1. s \in Services BY DEF TypeOK, Run
<1>2. s \in Satisfied(run[p].services, Rows) BY DEF Converged, MissingServices
<1>3. PICK r \in Rows : r.running /\ s \in LongestServicePrefix(r.name, run[p].services)
  BY <1>2 DEF Satisfied
<1>4. PICK t \in Services : r.name = TaskName(t) /\ (r.running <=> t \in Local(Survivor))
  <2>1. PICK t \in Local(Survivor) \cup Local("transit") :
               r = [name |-> TaskName(t), running |-> t \in Local(Survivor)]
    BY <1>3 DEF Rows
  <2> QED BY <2>1 DEF Local
<1>5. Owns(s, TaskName(t)) BY <1>3, <1>4 DEF LongestServicePrefix
<1>6. s = t BY <1>1, <1>5, NamesAssumption
<1> QED BY <1>3, <1>4, <1>6 DEF Local

LEMMA HeldStep ==
    ASSUME Held,
           \A s \in Services : place[s] = Survivor => place'[s] = Survivor,
           \A p \in Peers, s \in Services : Waits(p, s) => place'[s] = Survivor \/ Waits(p, s)'
    PROVE  Held'
BY DEF Held

LEMMA PeerStep ==
    ASSUME NEW q \in Peers, PlainPeer(q),
           pc'[q] = pc[q], run'[q] = run[q], avail'[q] = avail[q],
           q \in flag' => q \in flag, Local(q)' \subseteq Local(q)
    PROVE  PlainPeer(q)'
BY DEF PlainPeer

LEMMA DaemonPlain ==
    ASSUME Basics, Plain, NEW p \in Peers, Daemon(p), ~disturbed'
    PROVE  Plain'
<1> USE DEF Basics
<1>0. ~Stop(p) /\ ~UrgentDrain(p) /\ ~Release(p)
  BY DEF Stop, UrgentDrain, Release, Plain, PlainPeer
<1>1. UNCHANGED <<up, place>> /\ UNCHANGED (pc[Survivor]) /\ \A q \in Peers : Local(q)' = Local(q)
  BY <1>0, NodesAssumption DEF Daemon, Confirm, Snapshot, Drain, Count, Missing, NotReady,
     Leave, Goto, Local, TypeOK, Nodes
<1>2. \A q \in Peers \ {p} :
        /\ pc'[q] = pc[q] /\ run'[q] = run[q] /\ avail'[q] = avail[q]
        /\ q \in flag' => q \in flag
  BY <1>0 DEF Daemon, Confirm, Snapshot, Drain, Count, Missing, NotReady, Leave, Goto,
     Marked, Update, MayUpdate, TypeOK, Nodes
<1>3. \A q \in Peers \ {p} : PlainPeer(q)' BY <1>1, <1>2, PeerStep DEF Plain
<1>4. \A q \in Peers \ {p}, s \in Services : Waits(q, s) => Waits(q, s)'
  BY <1>1, <1>2 DEF Waits
<1>5. run[p] \in Run /\ PlainPeer(p) /\ p \in Nodes /\ Local(p)' = Local(p)
  BY <1>1 DEF TypeOK, Plain, Nodes
<1>6. SUFFICES PlainPeer(p)' /\ \A s \in Services : Waits(p, s) => place[s] = Survivor \/ Waits(p, s)'
  BY <1>1, <1>3, <1>4, HeldStep DEF Plain
<1>7. CASE Confirm(p)
  <2>1. run[p] = NewRun BY <1>7 DEF Confirm, Runs, InRun
  <2>2. run'[p] = run[p] /\ pc'[p] = "attempt" /\ UNCHANGED <<flag, avail>>
    BY <1>7, <2>1 DEF Confirm, Leave, Goto, TypeOK, Nodes
  <2>3. PlainPeer(p)' BY <1>5, <1>7, <2>1, <2>2 DEF Confirm, PlainPeer, NewRun
  <2> QED BY <1>1, <2>2, <2>3 DEF Waits
<1>8. CASE Snapshot(p)
  <2>1. CASE run' = [run EXCEPT ![p] = SnapshotOf(p)] /\ Goto(p, "drain")
    <3>1. run'[p] = SnapshotOf(p) /\ pc'[p] = "drain" BY <2>1, <1>5 DEF Goto, TypeOK
    <3>2. /\ run'[p].snapshotted /\ run'[p].drained = run[p].drained
          /\ run'[p].services = IF run[p].snapshotted THEN run[p].services ELSE Local(p)
      BY <3>1, <1>5 DEF SnapshotOf, Run
    <3>3. PlainPeer(p)' BY <1>5, <1>8, <3>1, <3>2 DEF Snapshot, PlainPeer
    <3>4. ASSUME NEW s \in Services, Waits(p, s) PROVE Waits(p, s)'
      BY <1>1, <3>2, <3>4 DEF Waits, Local, Runs
    <3> QED BY <3>3, <3>4
  <2>2. CASE UNCHANGED <<run, flag>> /\ Goto(p, "poll")
    <3>1. pc'[p] = "poll" BY <2>2, <1>5 DEF Goto, TypeOK
    <3>2. PlainPeer(p)' BY <1>5, <1>8, <2>2, <3>1 DEF Snapshot, PlainPeer, InRun
    <3> QED BY <1>1, <2>2, <3>2 DEF Waits
  <2> QED BY <1>8, <2>1, <2>2 DEF Snapshot
<1>9. CASE Drain(p)
  <2>1. run[p].snapshotted /\ pc'[p] = "poll" /\ UNCHANGED flag
    BY <1>5, <1>9 DEF Drain, Marks, PlainPeer, InRun, Goto, TypeOK
  <2>2. /\ run'[p].snapshotted = run[p].snapshotted /\ run'[p].services = run[p].services
        /\ run'[p].drained => avail'[p] = "drain"
    BY <1>5, <1>9 DEF Drain, Update, MayUpdate, PlainPeer, TypeOK, Run
  <2>3. PlainPeer(p)' BY <2>1, <2>2 DEF PlainPeer
  <2> QED BY <1>1, <2>2, <2>3 DEF Waits
<1>10. CASE (Count(p) \/ Missing(p)) /\ NotReady(p)
  <2>1. UNCHANGED run /\ pc'[p] \in {"poll", "attempt"}
    BY <1>5, <1>10 DEF NotReady, Goto, TypeOK
  <2>2. pc[p] \in InRun /\ UNCHANGED <<flag, avail>>
    BY <1>10 DEF Count, Missing, InRun
  <2>3. PlainPeer(p)' BY <1>5, <2>1, <2>2 DEF PlainPeer
  <2> QED BY <1>1, <2>1, <2>3 DEF Waits
<1>11. CASE Count(p) /\ run[p].drained /\ Local(p) = {} /\ Goto(p, "missing") /\ UNCHANGED run
  <2>1. pc[p] \in InRun /\ pc'[p] = "missing" /\ UNCHANGED <<flag, avail>>
    BY <1>5, <1>11 DEF Count, InRun, Goto, TypeOK
  <2>2. PlainPeer(p)' BY <1>5, <1>11, <2>1 DEF PlainPeer
  <2> QED BY <1>1, <1>11, <2>2 DEF Waits
<1>12. CASE Missing(p) /\ (run[p].services = {} \/ Converged(p)) /\ Leave(p, "poweroff")
  <2>1. pc[p] = "missing" /\ run[p].drained /\ Local(p) = {} /\ avail[p] = "drain"
    BY <1>5, <1>12 DEF Missing, PlainPeer
  <2>2. run'[p] = NewRun /\ pc'[p] = "poweroff" /\ UNCHANGED <<flag, avail>>
    BY <1>5, <1>12 DEF Missing, Leave, Goto, TypeOK
  <2>3. PlainPeer(p)' BY <1>5, <2>1, <2>2 DEF PlainPeer, NewRun, InRun
  <2>4. \A s \in Services : Waits(p, s) => place[s] = Survivor
    BY <1>12, <2>1, ConvergedHolds DEF Waits, Local
  <2> QED BY <2>3, <2>4
<1>13. Count(p) \/ Missing(p) => \/ (Count(p) \/ Missing(p)) /\ NotReady(p)
                                 \/ Count(p) /\ run[p].drained /\ Local(p) = {} /\ Goto(p, "missing") /\ UNCHANGED run
                                 \/ Missing(p) /\ (run[p].services = {} \/ Converged(p)) /\ Leave(p, "poweroff")
  BY DEF Count, Missing
<1> QED BY <1>0, <1>7, <1>8, <1>9, <1>10, <1>11, <1>12, <1>13 DEF Daemon

LEMMA StepPlain ==
    ASSUME IInv, [Next]_vars, ~disturbed' PROVE Plain'
<1> USE DEF IInv, Basics
<1>1. CASE Settle
  <2>1. \A p \in Peers : /\ pc'[p] = "loop" /\ run'[p] = NewRun /\ p \notin flag'
                         /\ avail'[p] # "drain" /\ p \in up'
    BY <1>1 DEF Settle, Runs, Marks, InRun, Nodes
  <2>2. \A p \in Peers : PlainPeer(p)' BY <2>1 DEF PlainPeer, NewRun, InRun
  <2>3. \A s \in Services : place'[s] \in Nodes BY <1>1 DEF Settle, TypeOK, Local
  <2>4. Held' BY <2>1, <2>3 DEF Held, Waits, NewRun, Nodes
  <2>5. pc'[Survivor] = "loop" BY <1>1 DEF Settle, Nodes
  <2> QED BY <2>2, <2>4, <2>5 DEF Plain
<1>2. CASE ~Settle
  <2>1. ~disturbed
    BY <1>2 DEF Next, vars, Daemon, Confirm, Stop, Snapshot, Drain, Count, Missing, NotReady, UrgentDrain,
       Release, Recover, Crash, Urgent, PowerDown, PowerUp, Teardown, Start, UpsChanges
  <2>2. Plain /\ pc[Survivor] = "loop" /\ (\A p \in Peers : PlainPeer(p)) /\ Held
    BY <2>1 DEF Plain
  <2>3. ASSUME NEW p \in Peers, Daemon(p) PROVE Plain'
    BY <2>2, <2>3, DaemonPlain
  <2>4. ASSUME NEW p \in Peers, Recover(p) PROVE FALSE
    BY <2>2, <2>4 DEF Recover, PlainPeer
  <2>5. ASSUME NEW p \in Peers, Crash(p) PROVE FALSE BY <2>5 DEF Crash
  <2>6. ASSUME NEW n \in Nodes, Urgent(n) \/ PowerUp(n) PROVE FALSE
    BY <2>6 DEF Urgent, PowerUp
  <2>7. ASSUME NEW n \in Nodes, PowerDown(n) PROVE Plain'
    <3>1. n \in Peers /\ pc[n] = "poweroff" BY <2>2, <2>7 DEF PowerDown, Nodes
    <3>2. Local(n) = {} /\ run[n] = NewRun /\ avail[n] = "drain"
      BY <2>2, <3>1 DEF PlainPeer, Runs, InRun
    <3>3. UNCHANGED <<place, run, avail, flag>>
      BY <2>7, <3>2 DEF PowerDown, Local, TypeOK
    <3>4. pc' = [pc EXCEPT ![n] = "down"] /\ up' = up \ {n} BY <2>7 DEF PowerDown, Goto
    <3>5. PlainPeer(n)' BY <3>1, <3>2, <3>3, <3>4 DEF PlainPeer, NewRun, InRun, TypeOK, Nodes, Local
    <3>6. \A q \in Peers \ {n} : PlainPeer(q)'
      BY <2>2, <3>3, <3>4, PeerStep DEF TypeOK, Local
    <3>7. \A q \in Peers, s \in Services : Waits(q, s) => Waits(q, s)'
      BY <3>2, <3>3, <3>4 DEF Waits, NewRun, Local
    <3>8. Held' BY <2>2, <3>3, <3>7, HeldStep
    <3>9. pc'[Survivor] = "loop" BY <2>2, <3>1, <3>4
    <3> QED BY <3>5, <3>6, <3>8, <3>9 DEF Plain
  <2>8. ASSUME NEW p \in Peers, NEW s \in Services, Teardown(p, s) PROVE Plain'
    <3>1. place[s] = p /\ avail[p] = "drain" /\ UNCHANGED <<up, pc, flag, avail, run>>
      BY <2>8 DEF Teardown
    <3>2. place' = [place EXCEPT ![s] = "transit"] BY <2>8 DEF Teardown
    <3>3. pc[p] \in InRun /\ run[p].snapshotted
      BY <2>2, <3>1 DEF Marks, PlainPeer, Local, TypeOK, Nodes, Labels
    <3>4. \A q \in Peers : Local(q)' \subseteq Local(q)
      BY <3>2, NodesAssumption DEF Local, TypeOK, Nodes
    <3>5. \A q \in Peers : PlainPeer(q)' BY <2>2, <3>1, <3>4, PeerStep
    <3>6. \A q \in Peers, t \in Services : Waits(q, t) => Waits(q, t)'
      BY <3>1, <3>2, <3>3 DEF Waits, TypeOK
    <3>7. \A t \in Services : place[t] = Survivor => place'[t] = Survivor
      BY <3>1, <3>2, NodesAssumption DEF TypeOK
    <3>8. Held' BY <2>2, <3>6, <3>7, HeldStep
    <3> QED BY <2>2, <3>1, <3>5, <3>8 DEF Plain
  <2>9. ASSUME NEW s \in Services, Start(s) PROVE Plain'
    <3>1. place[s] = "transit" /\ UNCHANGED <<up, pc, flag, avail, run>> BY <2>9 DEF Start
    <3>2. PICK n \in Open : place' = [place EXCEPT ![s] = n] BY <2>9 DEF Start
    <3>3. ASSUME NEW q \in Peers PROVE PlainPeer(q)'
      <4>1. CASE q = n
        <5>1. avail[q] # "drain" BY <3>2, <4>1, NodesAssumption DEF Open
        <5>2. PlainPeer(q) BY <2>2
        <5>3. pc[q] \notin {"missing", "poweroff", "down"} BY <5>1, <5>2 DEF PlainPeer
        <5> QED BY <3>1, <5>2, <5>3 DEF PlainPeer
      <4>2. CASE q # n
        <5>1. Local(q)' \subseteq Local(q) BY <3>2, <4>2 DEF Local, TypeOK
        <5> QED BY <2>2, <3>1, <5>1, PeerStep
      <4> QED BY <4>1, <4>2
    <3>4. \A q \in Peers, t \in Services : Waits(q, t) => Waits(q, t)'
      BY <3>1, <3>2, NodesAssumption DEF Waits, TypeOK, Nodes
    <3>5. \A t \in Services : place[t] = Survivor => place'[t] = Survivor
      BY <3>1, <3>2, NodesAssumption DEF TypeOK, Nodes
    <3>6. Held' BY <2>2, <3>4, <3>5, HeldStep
    <3> QED BY <2>2, <3>1, <3>3, <3>6 DEF Plain
  <2>10. CASE UpsChanges \/ UNCHANGED vars
    <3>1. UNCHANGED <<up, pc, flag, avail, place, run>> BY <2>10 DEF UpsChanges, vars
    <3> QED BY <2>2, <3>1 DEF Plain, PlainPeer, Held, Waits, Local
  <2> QED BY <1>2, <2>3, <2>4, <2>5, <2>6, <2>7, <2>8, <2>9, <2>10 DEF Next
<1> QED BY <1>1, <1>2

LEMMA InvHolds == Spec => []IInv
<1>1. Init => IInv BY InitInv
<1>2. IInv /\ [Next]_vars => IInv' BY StepBasics, StepPlain DEF IInv
<1> QED BY <1>1, <1>2, PTL DEF Spec

(***************************************************************************)
(* No service is left without anyone to wait for it, for any number of     *)
(* peers and services whose names respect NamesAssumption, with every      *)
(* failure of docker commands, queries and probes, as long as nothing      *)
(* aborts or cuts short a run.                                             *)
(***************************************************************************)
THEOREM SomebodyAlwaysWaits == Spec => []SomebodyWaits
<1>1. IInv => SomebodyWaits BY DEF IInv, Plain, Held, SomebodyWaits
<1> QED BY <1>1, InvHolds, PTL

(***************************************************************************)
(* With two peers, as deployed, the quorum is lost by their poweroffs only *)
(* when all work is on the survivor.  With more peers it need not be: the  *)
(* survivor's word is asked for a peer's own services alone.               *)
(***************************************************************************)
THEOREM QuorumAlwaysOutlivesMoves ==
    ASSUME Cardinality(Peers) <= 2
    PROVE  Spec => []QuorumOutlivesMoves
<1>1. IInv => QuorumOutlivesMoves
  <2> SUFFICES ASSUME IInv, ~disturbed, ~Quorum, NEW s \in Services
               PROVE  place[s] = Survivor
    BY DEF QuorumOutlivesMoves
  <2>1. TypeOK /\ Ups /\ Plain BY DEF IInv, Basics
  <2>2. Survivor \in up BY <2>1 DEF Ups, Plain, Nodes
  <2>3. Cardinality(Nodes) <= 3 /\ IsFiniteSet(Nodes) /\ Cardinality(Nodes) \in Nat
    <3>1. IsFiniteSet(Peers) /\ Survivor \notin Peers BY NodesAssumption
    <3>2. IsFiniteSet(Nodes) /\ Cardinality(Nodes) = Cardinality(Peers) + 1
      BY <3>1, FS_AddElement DEF Nodes
    <3> QED BY <3>1, <3>2, FS_CardinalityType
  <2>4. IsFiniteSet(up) /\ Cardinality(up) \in Nat
    BY <2>1, <2>3, FS_Subset, FS_CardinalityType DEF TypeOK
  <2>5. Cardinality(up) < 2 BY <2>3, <2>4 DEF Quorum
  <2>6. \A p \in Peers : p \notin up
    <3> SUFFICES ASSUME NEW p \in Peers, p \in up PROVE FALSE
      OBVIOUS
    <3>1. {p, Survivor} \subseteq up BY <2>2
    <3>2. IsFiniteSet({Survivor}) /\ Cardinality({Survivor}) = 1 BY FS_Singleton
    <3>3. Cardinality({Survivor} \cup {p}) = 2
      <4>1. p \notin {Survivor} BY NodesAssumption
      <4>2. Cardinality({Survivor} \cup {p}) = Cardinality({Survivor}) + 1
        BY <3>2, <4>1, FS_AddElement, Zenon
      <4> QED BY <3>2, <4>2
    <3>4. Cardinality({Survivor} \cup {p}) <= Cardinality(up)
      BY <2>4, <3>1, FS_Subset
    <3> QED BY <2>4, <2>5, <3>3, <3>4
  <2> QED BY <2>1, <2>6 DEF Plain, Held, Waits
<1> QED BY <1>1, InvHolds, PTL

-----------------------------------------------------------------------------
(* Each peer implements NodeDrain. *)

LEMMA PeerMarks ==
    ASSUME NEW p \in Peers, NEW q \in Peers, TypeOK, flag' = Marked(p), UNCHANGED avail
    PROVE  [Node(q)!DrainNext]_(Node(q)!drainVars)
<1>1. CASE p = q BY <1>1 DEF Marked, Node!DrainNext, Node!SetFlag
<1>2. CASE p # q BY <1>2 DEF Marked, Node!drainVars
<1> QED BY <1>1, <1>2

(* An update of a peer that is marked, or one that releases it. *)
LEMMA PeerUpdates ==
    ASSUME NEW p \in Peers, NEW q \in Peers, NEW target \in {"active", "drain"}, TypeOK,
           MayUpdate(p, target), target = "drain" => p \in flag, UNCHANGED flag
    PROVE  [Node(q)!DrainNext]_(Node(q)!drainVars)
<1>1. CASE p = q /\ avail' = [avail EXCEPT ![p] = target]
  <2>1. avail'[q] = target BY <1>1 DEF TypeOK
  <2>2. Node(q)!Update(target) BY <1>1, <2>1 DEF Node!Update, Node!Marked
  <2> QED BY <2>2 DEF Node!DrainNext, Node!Availability
<1>2. CASE p # q \/ UNCHANGED avail
  <2>1. avail'[q] = avail[q] BY <1>2 DEF MayUpdate, Update, TypeOK
  <2> QED BY <2>1 DEF Node!drainVars
<1> QED BY <1>1, <1>2 DEF MayUpdate, Update

LEMMA PeerReleases ==
    ASSUME NEW p \in Peers, NEW q \in Peers, Basics, Release(p)
    PROVE  [Node(q)!DrainNext]_(Node(q)!drainVars)
<1>1. UNCHANGED avail /\ flag' = flag \ {p} /\ avail[p] = "active"
  BY DEF Release, Basics, Marks
<1>2. CASE p = q BY <1>1, <1>2 DEF Node!DrainNext, Node!ClearFlag
<1>3. CASE p # q BY <1>1, <1>3 DEF Node!drainVars
<1> QED BY <1>2, <1>3

LEMMA PeerRests ==
    ASSUME NEW q \in Peers, UNCHANGED <<flag, avail>>
    PROVE  [Node(q)!DrainNext]_(Node(q)!drainVars)
BY DEF Node!drainVars

LEMMA PeerSteps ==
    ASSUME Basics, [Next]_vars, NEW q \in Peers
    PROVE  [Node(q)!DrainNext]_(Node(q)!drainVars)
<1>0. TypeOK /\ Marks BY DEF Basics
<1>1. ASSUME NEW p \in Peers, Daemon(p) PROVE [Node(q)!DrainNext]_(Node(q)!drainVars)
  <2>1. CASE Confirm(p) \/ Count(p) \/ Missing(p) BY <2>1, PeerRests DEF Confirm, Count, Missing
  <2>2. CASE Stop(p)
    <3>1. UNCHANGED <<flag, avail>> \/ (pc[p] = "drain" /\ MayUpdate(p, "drain") /\ UNCHANGED flag)
      BY <2>2 DEF Stop
    <3> QED BY <1>0, <3>1, PeerRests, PeerUpdates DEF Marks
  <2>3. CASE Snapshot(p) BY <1>0, <2>3, PeerRests, PeerMarks DEF Snapshot
  <2>4. CASE Drain(p)
    <3>1. p \in flag /\ MayUpdate(p, "drain") /\ UNCHANGED flag
      BY <1>0, <2>4 DEF Drain, MayUpdate, Marks
    <3> QED BY <1>0, <3>1, PeerUpdates
  <2>5. CASE UrgentDrain(p)
    <3>1. p \in flag /\ MayUpdate(p, "drain") /\ UNCHANGED flag
      BY <1>0, <2>5 DEF UrgentDrain, Marks
    <3> QED BY <1>0, <3>1, PeerUpdates
  <2>6. CASE Release(p) BY <2>6, PeerReleases
  <2> QED BY <1>1, <2>1, <2>2, <2>3, <2>4, <2>5, <2>6 DEF Daemon
<1>2. ASSUME NEW p \in Peers, Recover(p) PROVE [Node(q)!DrainNext]_(Node(q)!drainVars)
  <2>1. MayUpdate(p, "active") /\ UNCHANGED flag BY <1>2 DEF Recover, MayUpdate
  <2> QED BY <1>0, <2>1, PeerUpdates
<1>3. ASSUME NEW p \in Peers, Crash(p) PROVE [Node(q)!DrainNext]_(Node(q)!drainVars)
  <2>1. /\ UNCHANGED flag
        /\ UNCHANGED avail \/ (pc[p] \in {"drain", "urgent"} /\ MayUpdate(p, "drain"))
    BY <1>3 DEF Crash
  <2> QED BY <1>0, <2>1, PeerRests, PeerUpdates DEF Marks
<1>4. ASSUME NEW n \in Nodes, Urgent(n) PROVE [Node(q)!DrainNext]_(Node(q)!drainVars)
  <2>1. UNCHANGED avail /\ (UNCHANGED flag \/ (n \in Peers /\ flag' = Marked(n)))
    BY <1>4 DEF Urgent
  <2> QED BY <1>0, <2>1, PeerRests, PeerMarks
<1>5. ASSUME NEW n \in Nodes, PowerDown(n) \/ PowerUp(n)
      PROVE  [Node(q)!DrainNext]_(Node(q)!drainVars)
  BY <1>5, PeerRests DEF PowerDown, PowerUp
<1>6. ASSUME NEW p \in Peers, NEW s \in Services, Teardown(p, s) \/ Start(s)
      PROVE  [Node(q)!DrainNext]_(Node(q)!drainVars)
  BY <1>6, PeerRests DEF Teardown, Start
<1>7. CASE UpsChanges \/ Settle \/ UNCHANGED vars
  BY <1>7, PeerRests DEF UpsChanges, Settle, vars
<1> QED BY <1>1, <1>2, <1>3, <1>4, <1>5, <1>6, <1>7 DEF Next

(***************************************************************************)
(* Every peer, among any number of peers and whatever the survivor, the    *)
(* scheduler and the power do, keeps to the drain protocol of NodeDrain:   *)
(* no drain without its flag, no flag removed from a drained node.         *)
(***************************************************************************)
THEOREM PeersFollowDrain == Spec => NodesDrain
<1>1. Init => \A p \in Peers : Node(p)!DrainInit BY DEF Init, Node!DrainInit
<1>2. Basics /\ [Next]_vars => [\A p \in Peers : [Node(p)!DrainNext]_(Node(p)!drainVars)]_vars
  BY PeerSteps
<1>3. IInv => Basics BY DEF IInv
<1> QED BY <1>1, <1>2, <1>3, InvHolds, PTL DEF Spec, NodesDrain
=============================================================================
