------------------------------ MODULE WolOnBoot ------------------------------
(***************************************************************************)
(* wol-on-boot on the NAS (src/cmd/wol-on-boot/main.go): a burst of magic  *)
(* packets at start, and then the decision machine, in the survivor's role *)
(* and with the default knobs, as a detector of mains coming back; each    *)
(* return opens a remediation window, a goroutine of its own.              *)
(*                                                                         *)
(* Time goes in steps of the monitor loop.  A window is known by its age;  *)
(* it bursts when it opens and every GapSteps steps.  As in UpsWatcher, an *)
(* answered probe is at second 0 and a failed one at 0 or at SilentSecs.   *)
(***************************************************************************)
EXTENDS UpsMachine, FiniteSets

CONSTANTS
    RemediationTicks,   \* bursts of a window
    GapSteps            \* remediationGap / monitorInterval

ASSUME WindowAssumption == RemediationTicks \in Nat \ {0} /\ GapSteps \in Nat \ {0}

Lifetime == RemediationTicks * GapSteps

VARIABLES
    m,         \* the Machine
    windows,   \* the ages of the open windows
    outage,    \* history: this process's latest answered probe was on battery
    owed,      \* history: steps for which the latest return still calls for bursts
    quiet      \* history: steps since the last burst

vars == <<m, windows, outage, owed, quiet>>

TypeOK ==
    /\ m \in Machine
    /\ windows \subseteq 0 .. Lifetime - 1
    /\ outage \in BOOLEAN
    /\ owed \in 0 .. Lifetime
    /\ quiet \in 0 .. GapSteps

Init ==
    /\ m = NewMachine
    /\ windows = {}
    /\ outage = FALSE /\ owed = 0
    /\ quiet = 0

(* Plausible bug in Opens: windows open when an outage is confirmed. *)
OpensOnBattery(d) == d.event = "onbattery"

Opens(d) == d.event = "backonmains"

(* Plausible bug in Aged: a window is one burst short. *)
AgedShort == {a + 1 : a \in {x \in windows : x + 1 < Lifetime - GapSteps}}

(* Plausible bug in Aged: windows do not close. *)
AgedForever == {a + 1 : a \in windows}

(* A window sleeps after its last burst too, and closes then. *)
Aged == {a + 1 : a \in {x \in windows : x + 1 < Lifetime}}

Bursting(ages) == \E a \in ages : a % GapSteps = 0

(* The mains reply that ends an outage the NAS has seen. *)
Returns(p) == outage /\ IsMains(p)

Monitor(p) ==
    \E now \in IF p.ok THEN {0} ELSE {0, SilentSecs} :
        LET d == OnProbe(m, p, now)
        IN  /\ m' = d.m
            /\ windows' = Aged \cup (IF Opens(d) THEN {0} ELSE {})
            /\ outage' = IF p.ok THEN "OB" \in p.status ELSE outage
            /\ owed' = IF Returns(p) /\ ~m.poweredDown THEN Lifetime
                       ELSE IF owed > 0 THEN owed - 1 ELSE 0
            /\ quiet' = IF Bursting(windows') THEN 0
                        ELSE IF quiet < GapSteps THEN quiet + 1 ELSE quiet

(* Every start sends a burst, before the first probe. *)
BootBurst == quiet' = 0

(* The NAS or its service restarts: the windows are gone. *)
Restart ==
    /\ m' = NewMachine
    /\ windows' = {}
    /\ outage' = FALSE
    /\ owed' = 0
    /\ BootBurst

Next == (\E p \in Probe : Monitor(p)) \/ Restart

Spec == Init /\ [][Next]_vars

-----------------------------------------------------------------------------
(***************************************************************************)
(* After the UPS came back, bursts go out at least every GapSteps steps    *)
(* for a whole window, also when the UPS flickers and windows overlap      *)
(* (main.go:4: "re-bursts for a bounded window"), unless the NAS restarts  *)
(* or its machine has decided a shutdown.                                  *)
(***************************************************************************)
RegularBursts == owed > 0 => quiet < GapSteps

(***************************************************************************)
(* Windows open at every other step at most, since the machine asks for an *)
(* on-battery reply in between: a UPS that flickers for ever keeps at most *)
(* half a Lifetime of goroutines at work.                                  *)
(***************************************************************************)
WindowsBounded == Cardinality(windows) <= (Lifetime + 1) \div 2

(***************************************************************************)
(* What the package comment says (main.go:3 to 5): "on every OB->OL        *)
(* transition it re-bursts".  The step that ends an outage sends a burst,  *)
(* a window's or that of a restart in the middle of the outage.            *)
(***************************************************************************)
EveryReturnBursts == [][outage /\ ~outage' => quiet' = 0]_vars
=============================================================================
