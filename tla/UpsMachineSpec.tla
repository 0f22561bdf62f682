--------------------------- MODULE UpsMachineSpec ---------------------------
(***************************************************************************)
(* The decision machine of UpsMachine fed by an arbitrary sequence of      *)
(* probes, and what its decisions mean in terms of that sequence alone.    *)
(* log records every probe with its wall-clock second and the decision it  *)
(* got; the properties below never look inside the machine.                *)
(***************************************************************************)
EXTENDS UpsMachine, Sequences, FiniteSets

CONSTANTS
    Gaps,       \* seconds that may pass between two probes
    MaxProbes   \* bound: probes fed to one machine before the process restarts

ASSUME GapAssumption   == Gaps \subseteq Nat
ASSUME BoundAssumption == MaxProbes \in Nat

VARIABLES
    m,      \* the Machine
    now,    \* time.Now().Unix() at the latest probe
    log     \* the probes so far, each with its decision

vars == <<m, now, log>>

Entry == [probe : Probe, at : Nat, action : Action, event : Event]

TypeOK ==
    /\ m \in Machine
    /\ now \in Nat
    /\ log \in Seq(Entry)

Init ==
    /\ m = NewMachine
    /\ now = 0
    /\ log = <<>>

Feed(p, gap) ==
    /\ Len(log) < MaxProbes
    /\ now' = now + gap
    /\ LET d == OnProbe(m, p, now')
       IN  /\ m' = d.m
           /\ log' = Append(log, [probe |-> p, at |-> now', action |-> d.action, event |-> d.event])

(* The unit restarts the daemon (Restart=always): NewMachine again.  Its   *)
(* time may be taken as 0, for the machine compares times only.            *)
Restart ==
    /\ log # <<>>
    /\ m' = NewMachine
    /\ now' = 0
    /\ log' = <<>>

Next == (\E p \in Probe, gap \in Gaps : Feed(p, gap)) \/ Restart

Spec == Init /\ [][Next]_vars

-----------------------------------------------------------------------------
(* Readings of a log l. *)

MainsBetween(l, i, j) == \E k \in i .. j : IsMains(l[k].probe)

(* The on-battery replies up to i that no mains reply has followed. *)
OnBatteryRun(l, i) == {j \in 1 .. i : IsOB(l[j].probe) /\ ~MainsBetween(l, j, i)}

ShutBefore(l, i) == \E j \in 1 .. i - 1 : l[j].action = "shutdown"

(* A drain was ordered before i and mains have not been seen since. *)
OpenDrain(l, i) == \E j \in 1 .. i - 1 : l[j].action = "drain" /\ ~MainsBetween(l, j, i - 1)

(* The endpoint answered at j, not since, and the window has passed at i. *)
SilentSince(l, j, i) ==
    /\ l[j].probe.ok
    /\ \A k \in j + 1 .. i : ~l[k].probe.ok
    /\ l[i].at - l[j].at >= SilentSecs

(***************************************************************************)
(* A drain is ordered exactly when a peer's on-battery replies since the   *)
(* last mains reply reach ConfirmOB: once per outage, never by the         *)
(* survivor, however failed probes and low flickers of OL interleave       *)
(* (machine.go, the isOB arm and the counters the other arms keep).        *)
(***************************************************************************)
DrainsOnConfirm ==
    \A i \in DOMAIN log :
        log[i].action = "drain" <=>
            /\ Role = "peer"
            /\ IsOB(log[i].probe)
            /\ Cardinality(OnBatteryRun(log, i)) = ConfirmOB
            /\ ~ShutBefore(log, i)

(***************************************************************************)
(* The caller is told to release the node at the first mains reply after   *)
(* a drain it was told to begin, and at no other probe: every drain order  *)
(* is undone once, none is undone twice (machine.go, the drained latch).   *)
(***************************************************************************)
UndrainsCloseDrains ==
    \A i \in DOMAIN log :
        log[i].action = "undrain" <=>
            /\ IsMains(log[i].probe)
            /\ OpenDrain(log, i)
            /\ ~ShutBefore(log, i)

(***************************************************************************)
(* The node is shut down at the first LB reply, or at a failed probe once  *)
(* an endpoint that did answer has been silent for the whole window; an    *)
(* endpoint that never answered shuts nothing down, and there is one       *)
(* shutdown decision at most (machine.go, the LB and watchdog arms).       *)
(***************************************************************************)
ShutdownsJustified ==
    \A i \in DOMAIN log :
        log[i].action = "shutdown" <=>
            /\ ~ShutBefore(log, i)
            /\ \/ IsLB(log[i].probe)
               \/ \E j \in 1 .. i : SilentSince(log, j, i)

(***************************************************************************)
(* Both roles report an outage once when it is confirmed and once when it  *)
(* ends, an end also when it was never confirmed, and nothing else         *)
(* (machine.go, the events of the OB arm and of the last ok arm).          *)
(***************************************************************************)
OutagesReported ==
    \A i \in DOMAIN log :
        /\ log[i].event = "onbattery" <=>
               /\ IsOB(log[i].probe)
               /\ Cardinality(OnBatteryRun(log, i)) = ConfirmOB
               /\ ~ShutBefore(log, i)
        /\ log[i].event = "backonmains" <=>
               /\ IsMains(log[i].probe)
               /\ OnBatteryRun(log, i - 1) # {}
               /\ ~ShutBefore(log, i)
=============================================================================
