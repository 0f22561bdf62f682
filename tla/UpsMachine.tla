----------------------------- MODULE UpsMachine -----------------------------
(***************************************************************************)
(* The pure decision core of ups-watcher (src/internal/ups/machine.go): a  *)
(* machine is a record, OnProbe maps it and one NUT probe to the next      *)
(* record, the caller's action and the event to log.  The module has no    *)
(* variables; the specifications that drive the machine extend it.         *)
(*                                                                         *)
(* A UPS status is the set of its words the code looks for.  A probe is    *)
(* Silence (no status was read) or the Reply that carries a status.        *)
(***************************************************************************)
EXTENDS Integers

CONSTANTS
    Role,           \* UPS_ROLE
    CfgConfirmOB,   \* Config.ConfirmOB as given: zero or less selects the default
    CfgSilentSecs,  \* Config.SilentSecs as given
    Statuses        \* the UPS statuses considered

Words == {"OL", "OB", "LB"}

ASSUME RoleAssumption   == Role \in {"peer", "survivor"}
ASSUME ConfigAssumption == CfgConfirmOB \in Int /\ CfgSilentSecs \in Int
ASSUME StatusAssumption == Statuses \subseteq SUBSET Words

ConfirmOB  == IF CfgConfirmOB <= 0 THEN 3 ELSE CfgConfirmOB
SilentSecs == IF CfgSilentSecs <= 0 THEN 900 ELSE CfgSilentSecs

Reply(s) == [ok |-> TRUE, status |-> s]
Silence  == [ok |-> FALSE, status |-> {}]
Probe    == {Silence} \cup {Reply(s) : s \in Statuses}

IsLB(p)    == p.ok /\ "LB" \in p.status
IsOB(p)    == p.ok /\ "OB" \in p.status /\ "LB" \notin p.status
IsMains(p) == p.ok /\ p.status \cap {"OB", "LB"} = {}   \* the last "case ok": OL is not asked for

(***************************************************************************)
(* obCount is compared with ConfirmOB for equality only, so every count    *)
(* above it behaves alike and stands as ConfirmOB + 1.                     *)
(***************************************************************************)
CountCap == ConfirmOB + 1

Machine == [ obCount     : 0 .. CountCap,
             lastSeen    : Int,              \* -1: never reachable
             drained     : BOOLEAN,
             poweredDown : BOOLEAN,
             wasOB       : BOOLEAN ]

Action == {"none", "drain", "undrain", "shutdown"}
Event  == {"none", "onbattery", "backonmains", "watchdog", "shutdown"}

NewMachine == [ obCount |-> 0, lastSeen |-> -1, drained |-> FALSE,
                poweredDown |-> FALSE, wasOB |-> FALSE ]

Decide(m, action, event) == [m |-> m, action |-> action, event |-> event]

ShutdownDrain(d) == d.action = "shutdown" /\ Role = "peer"

-----------------------------------------------------------------------------
(* The arms of OnProbe's switch, in its order. *)

ShutDown(m, event) == Decide([m EXCEPT !.poweredDown = TRUE], "shutdown", event)

(* Plausible bug in OnBattery: every confirmed probe reports, not the first. *)
OnBatteryRepeats(m) ==
    LET count   == IF m.obCount < CountCap THEN m.obCount + 1 ELSE CountCap
        confirm == count >= ConfirmOB
        drain   == confirm /\ Role = "peer" /\ ~m.drained
    IN  Decide([m EXCEPT !.obCount = count, !.wasOB = TRUE, !.drained = @ \/ drain],
               IF drain THEN "drain" ELSE "none",
               IF confirm THEN "onbattery" ELSE "none")

OnBattery(m) ==
    LET count   == IF m.obCount < CountCap THEN m.obCount + 1 ELSE CountCap
        confirm == count = ConfirmOB
        drain   == confirm /\ Role = "peer" /\ ~m.drained
    IN  Decide([m EXCEPT !.obCount = count, !.wasOB = TRUE, !.drained = @ \/ drain],
               IF drain THEN "drain" ELSE "none",
               IF confirm THEN "onbattery" ELSE "none")

(* Plausible bug in OnMains: a mains reply takes one count back, not all. *)
OnMainsCountsDown(m) ==
    LET undrain == m.wasOB /\ Role = "peer" /\ m.drained
    IN  Decide([m EXCEPT !.obCount = @ - 1, !.wasOB = FALSE, !.drained = @ /\ ~undrain],
               IF undrain THEN "undrain" ELSE "none",
               IF m.wasOB THEN "backonmains" ELSE "none")

(* Plausible bug in OnMains: the count survives, so the next outage never confirms. *)
OnMainsKeepsCount(m) ==
    LET undrain == m.wasOB /\ Role = "peer" /\ m.drained
    IN  Decide([m EXCEPT !.wasOB = FALSE, !.drained = @ /\ ~undrain],
               IF undrain THEN "undrain" ELSE "none",
               IF m.wasOB THEN "backonmains" ELSE "none")

(* Plausible bug in OnMains: any outage that ends releases, drained or not. *)
OnMainsAlwaysReleases(m) ==
    Decide([m EXCEPT !.obCount = 0, !.wasOB = FALSE, !.drained = FALSE],
           IF m.wasOB /\ Role = "peer" THEN "undrain" ELSE "none",
           IF m.wasOB THEN "backonmains" ELSE "none")

(* Plausible bug in OnMains: every mains reply after an outage reports its end. *)
OnMainsRepeats(m) ==
    LET undrain == m.wasOB /\ Role = "peer" /\ m.drained
    IN  Decide([m EXCEPT !.obCount = 0, !.drained = @ /\ ~undrain],
               IF undrain THEN "undrain" ELSE "none",
               IF m.wasOB THEN "backonmains" ELSE "none")

OnMains(m) ==
    LET undrain == m.wasOB /\ Role = "peer" /\ m.drained
    IN  Decide([m EXCEPT !.obCount = 0, !.wasOB = FALSE, !.drained = @ /\ ~undrain],
               IF undrain THEN "undrain" ELSE "none",
               IF m.wasOB THEN "backonmains" ELSE "none")

(* Plausible bug in SilentTooLong: an endpoint never seen counts as silent. *)
SilentFromStart(m, now) == now - m.lastSeen >= SilentSecs

SilentTooLong(m, now) == m.lastSeen >= 0 /\ now - m.lastSeen >= SilentSecs

OnSilence(m, now) ==
    IF SilentTooLong(m, now) THEN ShutDown(m, "watchdog") ELSE Decide(m, "none", "none")

OnProbe(m, p, now) ==
    IF m.poweredDown
    THEN Decide(m, "none", "none")
    ELSE LET Seen(d) == [d EXCEPT !.m.lastSeen = now]
         IN  CASE IsLB(p)    -> Seen(ShutDown(m, "shutdown"))
               [] IsOB(p)    -> Seen(OnBattery(m))
               [] IsMains(p) -> Seen(OnMains(m))
               [] ~p.ok      -> OnSilence(m, now)
=============================================================================
